---- MODULE Spec2Model ----
(***************************************************************************)
(* Model of the debounced URL navigation of useNavigable                   *)
(* (src/src/runtime/composables/useNavigable.ts) and of the object helpers  *)
(* it uses (src/unnamed/part_000: CLONE, ITERATE).                          *)
(*                                                                         *)
(* JavaScript values are a tagged union.  Every value is a record with the  *)
(* same four fields, so that any two values can be compared:                *)
(*   t  the tag: "undef" "null" "num" "bool" "str" "json" "arr" "obj"       *)
(*   n  the number of a "num", 1/0 for a "bool"                             *)
(*   s  the characters of a "str" (a string that is no JSON text)           *)
(*   c  the elements of an "arr", the entries [k, v] of an "obj" in         *)
(*      insertion order, or, for a "json", the one datum a string holding   *)
(*      JSON text denotes                                                   *)
(***************************************************************************)
EXTENDS Integers, Sequences, FiniteSets, TLC

\* ------------------------------------------------------------ values

Undef == [t |-> "undef", n |-> 0, s |-> "", c |-> <<>>]
Null == [t |-> "null", n |-> 0, s |-> "", c |-> <<>>]
Num(i) == [t |-> "num", n |-> i, s |-> "", c |-> <<>>]
Bool(b) == [t |-> "bool", n |-> IF b THEN 1 ELSE 0, s |-> "", c |-> <<>>]
Str(x) == [t |-> "str", n |-> 0, s |-> x, c |-> <<>>]
Arr(elems) == [t |-> "arr", n |-> 0, s |-> "", c |-> elems]
Obj(entries) == [t |-> "obj", n |-> 0, s |-> "", c |-> entries]
KV(key, val) == [k |-> key, v |-> val]
EmptyObj == Obj(<<>>)

\* JavaScript truthiness, as `if (x)` and `x || y` decide it.
Truthy(v) ==
  CASE v.t = "undef" -> FALSE
    [] v.t = "null" -> FALSE
    [] v.t = "num" -> v.n # 0
    [] v.t = "bool" -> v.n = 1
    [] v.t = "str" -> v.s # ""
    [] OTHER -> TRUE

\* typeof v === "string": a plain string or a string that holds JSON text.
IsString(v) == v.t \in {"str", "json"}

\* Array.isArray(v)
IsArray(v) == v.t = "arr"

\* A plain mapping (an object that is no array).
IsMapping(v) == v.t = "obj"

\* Own keys of a mapping.
KeySet(o) == {o.c[i].k : i \in 1..Len(o.c)}

Has(o, key) == IsMapping(o) /\ key \in KeySet(o)

\* o[key]: undefined when o has no such own key (or is no mapping).
Get(o, key) ==
  IF Has(o, key)
  THEN LET i == CHOOSE j \in 1..Len(o.c) : o.c[j].k = key IN o.c[i].v
  ELSE Undef

\* o[key] = val on a mapping: overwrite in place, or append a new key.
Set(o, key, val) ==
  IF Has(o, key)
  THEN Obj([i \in 1..Len(o.c) |-> IF o.c[i].k = key THEN KV(key, val) ELSE o.c[i]])
  ELSE Obj(Append(o.c, KV(key, val)))

\* ------------------------------------------------------------ JSON

RECURSIVE Norm(_)
\* The data JSON.stringify keeps of a value: a mapping loses the keys whose
\* value is undefined, an array keeps its length with undefined as null.
Norm(v) ==
  CASE v.t = "obj" ->
         LET kept == SelectSeq(v.c, LAMBDA e : e.v.t # "undef")
         IN Obj([i \in 1..Len(kept) |-> KV(kept[i].k, Norm(kept[i].v))])
    [] v.t = "arr" ->
         Arr([i \in 1..Len(v.c) |->
                IF v.c[i].t = "undef" THEN Null ELSE Norm(v.c[i])])
    [] OTHER -> v

\* The string holding the JSON text of datum d.
Text(d) == [t |-> "json", n |-> 0, s |-> "", c |-> <<d>>]

\* JSON.stringify(v): undefined for undefined, else the text of what is kept.
JSONstringify(v) == IF v.t = "undef" THEN Undef ELSE Text(Norm(v))

\* JSON.parse(v) of a string: the datum, or a SyntaxError.
JSONparse(v) ==
  IF v.t = "json" THEN [ok |-> TRUE, v |-> v.c[1]] ELSE [ok |-> FALSE, v |-> Undef]

\* ------------------------------------------------------------ StructuralOps

RECURSIVE CLONE(_)
\* Deep copy: arrays element by element, mappings own key by own key,
\* everything else (primitives, null, undefined) returned as it is.
CLONE(item) ==
  CASE item.t = "arr" -> Arr([i \in 1..Len(item.c) |-> CLONE(item.c[i])])
    [] item.t = "obj" ->
         Obj([i \in 1..Len(item.c) |-> KV(item.c[i].k, CLONE(item.c[i].v))])
    [] OTHER -> item

\* The visits ITERATE makes, in order: one (value, key, index) per own key of
\* a mapping or per index of an array, none for anything else.
ITERATE(item) ==
  IF Truthy(item) /\ IsMapping(item)
  THEN [i \in 1..Len(item.c) |->
          [value |-> item.c[i].v, key |-> item.c[i].k, index |-> i - 1]]
  ELSE IF Truthy(item) /\ IsArray(item)
  THEN [i \in 1..Len(item.c) |->
          [value |-> item.c[i], key |-> ToString(i - 1), index |-> i - 1]]
  ELSE <<>>

\* ------------------------------------------------------------ QueryCodec

\* The callback of the first ITERATE: a string is JSON-parsed and the key is
\* skipped when that throws; any other value is copied through.
DecodeEntry(queryParams, value, key) ==
  IF IsString(value)
  THEN LET r == JSONparse(value)
       IN IF r.ok THEN Set(queryParams, key, r.v) ELSE queryParams
  ELSE Set(queryParams, key, value)

RECURSIVE DecodeVisits(_, _, _)
DecodeVisits(visits, i, queryParams) ==
  IF i > Len(visits) THEN queryParams
  ELSE DecodeVisits(visits, i + 1,
                    DecodeEntry(queryParams, visits[i].value, visits[i].key))

\* queryParams after "Zkopirovani existujicich query parametru".
DecodeQuery(routeQuery) == DecodeVisits(ITERATE(routeQuery), 1, EmptyObj)

\* queryParams[syscode] || {}
NamespaceEntry(queryParams, syscode) ==
  IF Truthy(Get(queryParams, syscode)) THEN Get(queryParams, syscode) ELSE EmptyObj

\* target[key] = value, where target is whatever queryParams[syscode] holds:
\* a mapping takes the key; an array takes it as a non-index property, which
\* is no part of its data; a primitive throws a TypeError (strict mode).
AssignProp(target, key, value) ==
  CASE IsMapping(target) -> [threw |-> FALSE, v |-> Set(target, key, value)]
    [] IsArray(target) -> [threw |-> FALSE, v |-> target]
    [] OTHER -> [threw |-> TRUE, v |-> target]

RECURSIVE AssignVisits(_, _, _)
\* ITERATE(config, (value, key) => (queryParams[syscode][key] = value))
AssignVisits(visits, i, acc) ==
  IF i > Len(visits) \/ acc.threw THEN acc
  ELSE AssignVisits(visits, i + 1, AssignProp(acc.v, visits[i].key, visits[i].value))

\* { page: pagination?.page, limit: pagination?.limit }
PaginationOf(pagination) ==
  Obj(<<KV("page", Get(pagination, "page")), KV("limit", Get(pagination, "limit"))>>)

\* The last ITERATE: every top-level value becomes its JSON string.
StringifyAll(queryParams) ==
  Obj([i \in 1..Len(queryParams.c) |->
         KV(queryParams.c[i].k, JSONstringify(queryParams.c[i].v))])

\* _generateQueryParams(syscode, pagination, config) with route.query given:
\* the query, or threw = TRUE when a property assignment threw.
_generateQueryParams(routeQuery, syscode, pagination, config) ==
  LET decoded == DecodeQuery(routeQuery)
      entry0 == NamespaceEntry(decoded, syscode)
      entry1 == IF Truthy(config)
                THEN AssignVisits(ITERATE(config), 1, [threw |-> FALSE, v |-> entry0])
                ELSE [threw |-> FALSE, v |-> entry0]
      entry2 == IF entry1.threw THEN entry1
                ELSE AssignProp(entry1.v, "pagination", PaginationOf(pagination))
  IN IF entry2.threw
     THEN [threw |-> TRUE, query |-> Undef]
     ELSE [threw |-> FALSE, query |-> StringifyAll(Set(decoded, syscode, entry2.v))]

\* The config fields _navigate copies onto the cloned params, in its order.
ForwardedFields == <<"sort", "cols", "displayFields", "panel", "tab", "fix", "mode">>

RECURSIVE CopyFields(_, _, _)
CopyFields(configParams, config, i) ==
  IF i > Len(ForwardedFields) THEN configParams
  ELSE CopyFields(Set(configParams, ForwardedFields[i], Get(config, ForwardedFields[i])),
                  config, i + 1)

\* What one call of _navigate(config, params) does with route.query given:
\* how often it invokes the codec and the navigation action, the query and
\* the replace option it navigates with, and whether it threw.
NoEffect == [codec |-> 0, nav |-> 0, query |-> Undef, replace |-> FALSE, threw |-> FALSE]

\* The body of _navigate under its guard.
Navigated(config, params, routeQuery) ==
  LET cl == CLONE(params)
      configParams == CopyFields(IF Truthy(cl) THEN cl ELSE EmptyObj, config, 1)
      pag == IF Truthy(Get(config, "pagination"))
             THEN Get(config, "pagination") ELSE EmptyObj
      g == _generateQueryParams(routeQuery, Get(config, "syscode").s, pag, configParams)
  IN IF g.threw
     THEN [codec |-> 1, nav |-> 0, query |-> Undef, replace |-> FALSE, threw |-> TRUE]
     ELSE [codec |-> 1, nav |-> 1, query |-> g.query, replace |-> TRUE, threw |-> FALSE]

\* Mutant of _navigate: the syscode guard is missing.
_navigate_Unguarded(config, params, routeQuery) == Navigated(config, params, routeQuery)

_navigate(config, params, routeQuery) ==
  IF Truthy(Get(config, "syscode"))
  THEN Navigated(config, params, routeQuery)
  ELSE NoEffect

\* ------------------------------------------------------------ NavigableFacade

\* config after the body of onPageChange(config, value): the page is written
\* to `config.pagination || {}`, which is config's own pagination only when
\* config has one.
PageChanged(config, value) ==
  IF Truthy(Get(config, "pagination"))
  THEN Set(config, "pagination", Set(Get(config, "pagination"), "page", value))
  ELSE config

\* config after the body of onLimitChange(config, value).
LimitChanged(config, value) ==
  IF Truthy(Get(config, "pagination"))
  THEN Set(config, "pagination",
           Set(Set(Get(config, "pagination"), "limit", value), "page", Num(1)))
  ELSE config

\* Mutant of NormalizeSort: the input is always wrapped.
NormalizeSort_AlwaysWrap(value) == Arr(<<value>>)

\* Array.isArray(value[0]) ? value : value.length ? [value] : []
NormalizeSort(value) ==
  IF Len(value.c) > 0 /\ IsArray(value.c[1]) THEN value
  ELSE IF Len(value.c) > 0 THEN Arr(<<value>>)
  ELSE Arr(<<>>)

\* config after the body of onSort(config, value).
Sorted(config, value) == Set(config, "sort", NormalizeSort(value))

\* Mutant of Guard: the mutators run their body whatever the syscode.
Guard_Always(config) == TRUE

\* if (config?.syscode): the guard around the body of the three mutators.
Guard(config) == Truthy(Get(config, "syscode"))

\* ------------------------------------------------------------ bounds, inputs

\* useDebounceFn(..., 400)
DebounceMs == 400
\* Time advances in steps of half a window.
TickMs == DebounceMs \div 2
\* The timer variable when no timer is pending.
NoTimer == 0 - 1
\* Public calls per behaviour.
MaxCalls == 2

CfgIds == {1, 2}

Pag(p, l) == Obj(<<KV("page", Num(p)), KV("limit", Num(l))>>)
Pair(f, d) == Arr(<<Str(f), Str(d)>>)

\* The view configurations a caller may hold: config 1 is bound to the view
\* "grid"; config 2 is unbound (no syscode, or an empty one) or bound to "list".
Config1Init ==
  { Obj(<<KV("syscode", Str("grid"))>>),
    Obj(<<KV("syscode", Str("grid")), KV("pagination", Pag(3, 10)),
          KV("sort", Arr(<<Pair("name", "asc")>>))>>) }

Config2Init ==
  { Obj(<<KV("pagination", Pag(3, 10))>>),
    Obj(<<KV("syscode", Str("")), KV("pagination", Pag(3, 10))>>),
    Obj(<<KV("syscode", Str("list")), KV("pagination", Pag(1, 5)),
          KV("mode", Str("edit"))>>) }

\* The URL query states a flush may read: empty; the namespaces written by
\* earlier flushes; foreign keys (a raw string, a JSON string, a repeated
\* parameter, a parameter without value); and values under the key "grid"
\* or "list" that are no mapping (an array, null, a number, a raw string).
RouteInit ==
  { EmptyObj,
    Obj(<<KV("grid", Text(Obj(<<KV("sort", Arr(<<Pair("a", "desc")>>)),
                                KV("filter", Str("x")),
                                KV("pagination", Pag(1, 10))>>))),
          KV("list", Text(Obj(<<KV("pagination", Pag(2, 5))>>)))>>),
    Obj(<<KV("q", Str("abc")), KV("lang", Text(Str("cs"))),
          KV("tags", Arr(<<Str("a"), Str("b")>>)), KV("flag", Null)>>),
    Obj(<<KV("grid", Text(Arr(<<Str("a")>>))), KV("list", Text(Null))>>),
    Obj(<<KV("grid", Text(Num(5))), KV("q", Str("abc"))>>),
    Obj(<<KV("grid", Str("abc")), KV("q", Str("abc"))>>) }

\* navigate's second argument.
ParamsInputs ==
  { Undef,
    Obj(<<KV("filter", Str("y")), KV("sort", Arr(<<Pair("z", "asc")>>)),
          KV("pagination", Pag(9, 9))>>) }

PageInputs == {Num(2)}
LimitInputs == {Num(20)}
SortInputs ==
  { Arr(<<>>), Pair("name", "asc"), Arr(<<Pair("a", "asc"), Pair("b", "desc")>>) }

\* ------------------------------------------------------------ state

VARIABLES
  configs,      \* the callers' config objects, by identity
  _queue,       \* _queue.value: the params of the latest navigate call
  watchPending, \* the watcher's job is queued (runs before any timer)
  timer,        \* ms left on the debounce timer, or NoTimer
  debounced,    \* the arguments the pending debounced invocation holds
  routeQuery,   \* route.query
  inflight,     \* queries handed to navigateTo and not yet committed
  callSeq,      \* history: public calls made so far
  elapsed,      \* history: ms since the latest navigate call (capped)
  burst,        \* history: navigate calls since the latest flush
  bursts,       \* history: bursts of navigate calls begun
  ghost,        \* history: the intent pending had no call with an undefined syscode been made
  last,         \* history: the latest public call
  flushLog,     \* history: one record per flush
  heap,         \* StructuralOps: the containers of the caller, by address
  heap0,        \* StructuralOps, history: the heap before the latest call
  opCall,       \* StructuralOps: the call at hand and its arguments
  opRet         \* StructuralOps: what the latest call returned

\* The state of useNavigable, and the state a call of a StructuralOps
\* function works on.
navVars == <<configs, _queue, watchPending, timer, debounced, routeQuery, inflight,
             callSeq, elapsed, burst, bursts, ghost, last, flushLog>>

opsVars == <<heap, heap0, opCall, opRet>>

vars == <<navVars, opsVars>>

\* An intent: the params array of one navigate call (id: which call made it;
\* op, arg, pre: the public operation that made it, its argument, and the
\* config before that operation).
Intent(id, c, p, op, arg, pre) ==
  [id |-> id, cfg |-> c, params |-> p, op |-> op, arg |-> arg, pre |-> pre]

NoIntent == Intent(0, 0, Undef, "none", Undef, Undef)

NoCall == [op |-> "none", cfg |-> 0, arg |-> Undef, pre |-> Undef, enq |-> 0]

\* No StructuralOps call at hand, and nothing returned.
NoOp == [name |-> "none", argv |-> <<>>, step |-> 0]

NoRet == [v |-> Undef, threw |-> FALSE]

Init ==
  /\ configs \in [CfgIds -> Config1Init \cup Config2Init]
  /\ configs[1] \in Config1Init
  /\ configs[2] \in Config2Init
  /\ _queue = NoIntent
  /\ watchPending = FALSE
  /\ timer = NoTimer
  /\ debounced = NoIntent
  /\ routeQuery \in RouteInit
  /\ inflight = <<>>
  /\ callSeq = 0
  /\ elapsed = DebounceMs
  /\ burst = 0
  /\ bursts = 0
  /\ ghost = NoIntent
  /\ last = NoCall
  /\ flushLog = <<>>
  /\ heap = <<>>
  /\ heap0 = <<>>
  /\ opCall = NoOp
  /\ opRet = NoRet

\* navigate(...params): _queue.value = params, which queues the watcher's job.
navigate(intent) ==
  /\ _queue' = intent
  /\ watchPending' = TRUE

\* One navigate call made by public operation op on config c, and its history.
Enqueue(c, p, op, arg) ==
  LET intent == Intent(callSeq + 1, c, p, op, arg, configs[c])
  IN /\ navigate(intent)
     /\ elapsed' = 0
     /\ burst' = burst + 1
     /\ bursts' = IF burst = 0 THEN bursts + 1 ELSE bursts
     /\ ghost' = IF Get(configs[c], "syscode").t = "undef" THEN ghost ELSE intent
     /\ last' = [op |-> op, cfg |-> c, arg |-> arg, pre |-> configs[c], enq |-> 1]

\* A public operation that returns without calling navigate.
NoEnqueue(c, op, arg) ==
  /\ last' = [op |-> op, cfg |-> c, arg |-> arg, pre |-> configs[c], enq |-> 0]
  /\ UNCHANGED <<_queue, watchPending, elapsed, burst, bursts, ghost>>

Navigate(c, p) ==
  /\ callSeq < MaxCalls
  /\ callSeq' = callSeq + 1
  /\ Enqueue(c, p, "navigate", p)
  /\ UNCHANGED <<configs, timer, debounced, routeQuery, inflight, flushLog>>
  /\ UNCHANGED opsVars

\* A mutator: under the guard, the config is changed and navigate(config) called.
Mutator(c, op, arg, changed) ==
  /\ callSeq < MaxCalls
  /\ callSeq' = callSeq + 1
  /\ IF Guard(configs[c])
     THEN /\ configs' = [configs EXCEPT ![c] = changed]
          /\ Enqueue(c, Undef, op, arg)
     ELSE /\ UNCHANGED configs
          /\ NoEnqueue(c, op, arg)
  /\ UNCHANGED <<timer, debounced, routeQuery, inflight, flushLog>>
  /\ UNCHANGED opsVars

onPageChange(c, value) == Mutator(c, "onPageChange", value, PageChanged(configs[c], value))

onLimitChange(c, value) == Mutator(c, "onLimitChange", value, LimitChanged(configs[c], value))

onSort(c, value) == Mutator(c, "onSort", value, Sorted(configs[c], value))

\* Mutant of DebouncedArgs: a running timer keeps the arguments it started with.
DebouncedArgs_KeepFirst(old, new, running) == IF running THEN old ELSE new

\* The arguments the debounced function holds after an invocation with `new`.
DebouncedArgs(old, new, running) == new

\* The watcher's job: it invokes the debounced function with _queue.value,
\* which restarts the timer.
WatcherRun ==
  /\ watchPending
  /\ watchPending' = FALSE
  /\ debounced' = DebouncedArgs(debounced, _queue, timer # NoTimer)
  /\ timer' = DebounceMs
  /\ UNCHANGED <<configs, _queue, routeQuery, inflight, callSeq, elapsed, burst,
                 bursts, ghost, last, flushLog>>
  /\ UNCHANGED opsVars

\* A clock whose timer never counts down.
Tick_TimerStuck ==
  /\ ~watchPending
  /\ timer > 0
  /\ elapsed' = IF elapsed + TickMs < DebounceMs THEN elapsed + TickMs ELSE DebounceMs
  /\ UNCHANGED <<configs, _queue, watchPending, timer, debounced, routeQuery,
                 inflight, callSeq, burst, bursts, ghost, last, flushLog>>
  /\ UNCHANGED opsVars

\* Time passes; queued jobs run before time does.
Tick ==
  /\ ~watchPending
  /\ timer > 0
  /\ timer' = IF timer > TickMs THEN timer - TickMs ELSE 0
  /\ elapsed' = IF elapsed + TickMs < DebounceMs THEN elapsed + TickMs ELSE DebounceMs
  /\ UNCHANGED <<configs, _queue, watchPending, debounced, routeQuery, inflight,
                 callSeq, burst, bursts, ghost, last, flushLog>>
  /\ UNCHANGED opsVars

\* The record of one flush.
FlushRecord(r) ==
  [ used |-> debounced, latest |-> _queue, n |-> burst, elapsed |-> elapsed,
    ghost |-> ghost,
    ghostConfig |-> IF ghost.cfg \in CfgIds THEN configs[ghost.cfg] ELSE Undef,
    config |-> configs[debounced.cfg], url |-> routeQuery,
    codec |-> r.codec, nav |-> r.nav, query |-> r.query, replace |-> r.replace,
    threw |-> r.threw ]

\* The debounce timer is due and fires, which leaves no timer pending.
TimerExpires ==
  /\ ~watchPending
  /\ timer = 0
  /\ timer' = NoTimer

\* The timer fires: _navigate(params[0], params[1]).
Flush ==
  /\ TimerExpires
  /\ \E r \in {_navigate(configs[debounced.cfg], debounced.params, routeQuery)} :
       /\ flushLog' = Append(flushLog, FlushRecord(r))
       /\ inflight' = IF r.nav = 1 THEN Append(inflight, r.query) ELSE inflight
  /\ burst' = 0
  /\ ghost' = NoIntent
  /\ UNCHANGED <<configs, _queue, watchPending, debounced, routeQuery, callSeq,
                 elapsed, bursts, last>>
  /\ UNCHANGED opsVars

\* A navigation commits: the URL holds its query.
NavComplete ==
  /\ inflight # <<>>
  /\ routeQuery' = Head(inflight)
  /\ inflight' = Tail(inflight)
  /\ UNCHANGED <<configs, _queue, watchPending, timer, debounced, callSeq, elapsed,
                 burst, bursts, ghost, last, flushLog>>
  /\ UNCHANGED opsVars

Next ==
  \/ \E c \in CfgIds, p \in ParamsInputs : Navigate(c, p)
  \/ \E c \in CfgIds, v \in PageInputs : onPageChange(c, v)
  \/ \E c \in CfgIds, v \in LimitInputs : onLimitChange(c, v)
  \/ \E c \in CfgIds, v \in SortInputs : onSort(c, v)
  \/ WatcherRun
  \/ Tick
  \/ Flush
  \/ NavComplete

Spec == Init /\ [][Next]_vars

\* The event loop runs every queued job and fires every timer that is due,
\* and time does not stand still. Flush is the only step of Next that is a
\* TimerExpires step, so the last conjunct is the weak fairness of the flush.
Fairness == WF_vars(WatcherRun) /\ WF_vars(Tick) /\ WF_timer(TimerExpires)

\* The debouncer's progress depends on the URL and the configs only through
\* whether a flush navigates, does nothing or throws: one view bound to
\* "grid", one unbound, and the URLs without a "list" entry give all three.
InitLive ==
  /\ Init
  /\ ~Has(configs[1], "pagination")
  /\ ~Has(configs[2], "syscode")
  /\ KeySet(routeQuery) \subseteq {"grid", "q"}

SpecLive == InitLive /\ [][Next]_vars /\ Fairness

\* ------------------------------------------------------------ claims

Flushes == {flushLog[i] : i \in 1..Len(flushLog)}

Idle == timer = NoTimer /\ ~watchPending

SyscodeOf(config) == Get(config, "syscode")

Mutators == {"onPageChange", "onLimitChange", "onSort"}

\* C1: navigate calls that each arrive less than a debounce window after the
\* previous one are flushed once, with the arguments of the last call: no
\* flush happens less than a window after a call, every flush uses the params
\* of the latest call and no earlier one, and every burst of calls has had
\* exactly one flush once the machine is idle.
C1_DebounceCoalescing ==
  /\ \A f \in Flushes :
       /\ f.n >= 1
       /\ f.elapsed >= DebounceMs
       /\ f.used = f.latest
  /\ Len(flushLog) <= bursts
  /\ Idle => Len(flushLog) = bursts

\* Two calls, the second within the window of the first, flushed once.
C1_Witness ==
  /\ Len(flushLog) = 1
  /\ flushLog[1].n = 2
  /\ flushLog[1].used.id = 2
  /\ Idle

\* C2: a flush of an intent whose config has a falsy syscode invokes neither
\* the codec nor the navigation action, emits nothing, and leaves the machine
\* idle.
C2_FalsyFlushEmitsNothing ==
  [][ ( /\ Len(flushLog') = Len(flushLog) + 1
        /\ ~Truthy(SyscodeOf(configs[debounced.cfg])) )
      => ( /\ flushLog'[Len(flushLog')].codec = 0
           /\ flushLog'[Len(flushLog')].nav = 0
           /\ inflight' = inflight
           /\ routeQuery' = routeQuery
           /\ timer' = NoTimer
           /\ ~watchPending' ) ]_vars

\* Flushes of an intent with an undefined and with an empty syscode happened.
C2_Witness ==
  /\ Idle
  /\ \E f \in Flushes : SyscodeOf(f.config) = Str("") /\ f.nav = 0
  /\ flushLog # <<>>
  /\ ~Truthy(SyscodeOf(flushLog[Len(flushLog)].config))

\* C7: onSort on a config with a syscode: a list of pairs is kept as it is, a
\* single non-empty pair is wrapped in a one-element list, an empty input
\* gives the empty list; and the call enqueues exactly one intent for config.
C7_SortNormalization ==
  (last.op = "onSort" /\ Truthy(SyscodeOf(last.pre))) =>
    LET value == last.arg
        sort == Get(configs[last.cfg], "sort")
    IN /\ (Len(value.c) > 0 /\ IsArray(value.c[1])) => sort = value
       /\ (Len(value.c) > 0 /\ ~IsArray(value.c[1])) =>
            (Len(sort.c) = 1 /\ sort.c[1] = value)
       /\ Len(value.c) = 0 => (IsArray(sort) /\ Len(sort.c) = 0)
       /\ last.enq = 1
       /\ _queue.id = callSeq /\ _queue.cfg = last.cfg /\ _queue.op = "onSort"

\* onSort(config, ["name", "asc"]) wrapped the pair and enqueued.
C7_Witness ==
  /\ last.op = "onSort"
  /\ Truthy(SyscodeOf(last.pre))
  /\ last.arg = Pair("name", "asc")
  /\ Get(configs[last.cfg], "sort") = Arr(<<Pair("name", "asc")>>)
  /\ _queue.id = callSeq

\* What the body of each mutator is meant to leave in config.
MutationApplied(config, op, arg) ==
  CASE op = "onPageChange" -> Get(Get(config, "pagination"), "page") = arg
    [] op = "onLimitChange" ->
         /\ Get(Get(config, "pagination"), "limit") = arg
         /\ Get(Get(config, "pagination"), "page") = Num(1)
    [] op = "onSort" -> Get(config, "sort") = NormalizeSort(arg)
    [] OTHER -> TRUE

\* C4 as stated: with config.syscode absent the mutators still apply their
\* config mutation.
C4_MutationStillApplied ==
  (last.op \in Mutators /\ SyscodeOf(last.pre) = Undef) =>
    MutationApplied(configs[last.cfg], last.op, last.arg)

\* C4 amended: with config.syscode absent (or falsy) a mutator changes nothing
\* of config and enqueues no intent.
C4_NoSyscodeNoMutation ==
  (last.op \in Mutators /\ ~Truthy(SyscodeOf(last.pre))) =>
    /\ configs[last.cfg] = last.pre
    /\ last.enq = 0
    /\ _queue.id # callSeq

\* onLimitChange on a config with pagination and no syscode was called.
C4_Witness ==
  /\ last.op = "onLimitChange"
  /\ SyscodeOf(last.pre) = Undef
  /\ Get(last.pre, "pagination") = Pag(3, 10)
  /\ configs[last.cfg] = last.pre

\* C3 as stated: a public operation called with a config whose syscode is
\* undefined leaves navigation untouched: every flush performs the navigation
\* that the intent pending without those calls would have performed.
C3_UndefinedSyscodeCallChangesNothing ==
  \A f \in Flushes :
    f.ghost.id # 0 =>
      LET expected == _navigate(f.ghostConfig, f.ghost.params, f.url)
      IN f.nav = expected.nav /\ f.query = expected.query

\* The decoded namespace entry of a flushed query (undefined if there is none).
EntryOf(query, syscode) ==
  IF Has(query, syscode.s) /\ IsString(Get(query, syscode.s))
  THEN JSONparse(Get(query, syscode.s)).v
  ELSE Undef

PageOf(config) == Get(Get(config, "pagination"), "page")

\* C5 as stated, for configs with a syscode: after onLimitChange(config, N) on
\* a config with a page, page = 1 and limit = N, and the intent the call
\* enqueued flushes a query whose pagination is {page: 1, limit: N}.
C5_LimitChangeResetsPage ==
  /\ (last.op = "onLimitChange" /\ Guard(last.pre) /\ PageOf(last.pre) # Undef) =>
       MutationApplied(configs[last.cfg], "onLimitChange", last.arg)
  /\ \A f \in Flushes :
       (f.used.op = "onLimitChange" /\ PageOf(f.used.pre) # Undef) =>
         /\ f.nav = 1
         /\ Get(EntryOf(f.query, SyscodeOf(f.config)), "pagination")
              = Obj(<<KV("page", Num(1)), KV("limit", f.used.arg)>>)

\* C6 as stated: onPageChange(config, page) on a config with a syscode sets
\* config.pagination.page = page, also when config had no pagination, and the
\* query flushed for that intent carries pagination.page = page.
C6_PageChangeSetsPage ==
  /\ (last.op = "onPageChange" /\ Guard(last.pre)) => PageOf(configs[last.cfg]) = last.arg
  /\ \A f \in Flushes :
       f.used.op = "onPageChange" =>
         /\ f.nav = 1
         /\ Get(Get(EntryOf(f.query, SyscodeOf(f.config)), "pagination"), "page")
              = f.used.arg

\* C8 as stated: whatever the URL held, the query a flush of a config with a
\* syscode produces has the key syscode, holding a mapping with the sub-key
\* pagination (the empty mapping when page and limit are absent).
C8_NamespaceInvariant ==
  \A f \in Flushes :
    Truthy(SyscodeOf(f.config)) =>
      LET entry == EntryOf(f.query, SyscodeOf(f.config))
      IN /\ f.nav = 1
         /\ IsMapping(entry)
         /\ Has(entry, "pagination")
         /\ IsMapping(Get(entry, "pagination"))
         /\ (PageOf(f.config) = Undef /\ Get(Get(f.config, "pagination"), "limit") = Undef)
              => Get(entry, "pagination") = EmptyObj

\* The datum a URL value stands for: what its JSON text denotes, the value
\* itself when it is no string, nothing when it is no JSON text.
DataOf(value) ==
  IF IsString(value) THEN JSONparse(value).v ELSE value

InvalidJSON(value) == IsString(value) /\ ~JSONparse(value).ok

\* The extraConfig a flush hands to the codec: the params (an empty mapping if
\* none) with the forwarded config fields.
ExtraOf(f) ==
  CopyFields(IF Truthy(f.used.params) THEN f.used.params ELSE EmptyObj, f.config, 1)

\* The sub-key k of the namespace entry as C9 states it: the pagination
\* argument's {page, limit} for pagination, else extraConfig's value if it has
\* the key, else the previous entry's.
ExpectedSubKey(f, k) ==
  LET prev == DataOf(Get(f.url, SyscodeOf(f.config).s))
      extra == ExtraOf(f)
  IN IF k = "pagination"
     THEN Norm(PaginationOf(Get(f.config, "pagination")))
     ELSE IF Has(extra, k) THEN Norm(Get(extra, k))
     ELSE Get(prev, k)

\* C9 as stated: the decoded namespace entry of the result is the previous
\* entry (an empty mapping if absent) with extraConfig's keys overriding and
\* pagination set last.
C9_CodecResult ==
  \A f \in Flushes :
    Truthy(SyscodeOf(f.config)) =>
      LET entry == EntryOf(f.query, SyscodeOf(f.config))
          prev == DataOf(Get(f.url, SyscodeOf(f.config).s))
          keys == KeySet(ExtraOf(f)) \cup {"pagination"}
                    \cup (IF IsMapping(prev) THEN KeySet(prev) ELSE {})
      IN /\ f.codec = 1
         /\ IsMapping(entry)
         /\ KeySet(entry) \subseteq keys
         /\ \A k \in keys : Get(entry, k) = ExpectedSubKey(f, k)

\* C10 as stated, for the keys other than syscode: a key whose string is no
\* JSON text is absent from the produced query, every other key is present
\* with the same data, and a flush that met such a key still navigates.
C10_BestEffortDecode ==
  \A f \in Flushes :
    Truthy(SyscodeOf(f.config)) =>
      /\ (\E k \in KeySet(f.url) : InvalidJSON(Get(f.url, k))) => (f.nav = 1 /\ ~f.threw)
      /\ f.nav = 1 =>
           \A k \in KeySet(f.url) \ {SyscodeOf(f.config).s} :
             IF InvalidJSON(Get(f.url, k))
             THEN ~Has(f.query, k)
             ELSE /\ Has(f.query, k)
                  /\ DataOf(Get(f.query, k)) = DataOf(Get(f.url, k))

\* The URL a flush read holds, under the flushed syscode, a mapping or
\* nothing a property can be assigned to (absent, null, no JSON text).
NamespaceIsMapping(f) ==
  LET prev == DataOf(Get(f.url, SyscodeOf(f.config).s))
  IN IsMapping(prev) \/ ~Truthy(prev)

\* Where the namespace holds a mapping or nothing, and the config has its
\* pagination, the flushed query is as C5, C6, C8, C9 and C10 state it.
FlushOnMappingNamespace ==
  \A f \in Flushes :
    (Truthy(SyscodeOf(f.config)) /\ NamespaceIsMapping(f)) =>
      LET entry == EntryOf(f.query, SyscodeOf(f.config))
          prev == DataOf(Get(f.url, SyscodeOf(f.config).s))
          keys == KeySet(ExtraOf(f)) \cup {"pagination"}
                    \cup (IF IsMapping(prev) THEN KeySet(prev) ELSE {})
      IN /\ f.nav = 1 /\ f.codec = 1 /\ f.replace
         /\ IsMapping(entry)
         /\ Get(entry, "pagination") = Norm(PaginationOf(Get(f.config, "pagination")))
         /\ KeySet(entry) \subseteq keys
         /\ \A k \in keys : Get(entry, k) = ExpectedSubKey(f, k)
         /\ \A k \in KeySet(f.url) \ {SyscodeOf(f.config).s} :
              IF InvalidJSON(Get(f.url, k))
              THEN ~Has(f.query, k)
              ELSE /\ Has(f.query, k)
                   /\ DataOf(Get(f.query, k)) = DataOf(Get(f.url, k))
         /\ (f.used.op = "onLimitChange" /\ PageOf(f.used.pre) # Undef) =>
              Get(entry, "pagination") = Obj(<<KV("page", Num(1)), KV("limit", f.used.arg)>>)
         /\ (f.used.op = "onPageChange" /\ PageOf(f.used.pre) # Undef) =>
              Get(Get(entry, "pagination"), "page") = f.used.arg

\* C11: every flush of an intent whose config has a truthy syscode, whatever
\* the URL's query holds, invokes the codec once and the navigation action
\* once, and every navigation performed replaces the history entry.
C11_TruthyFlushNavigatesOnce ==
  \A f \in Flushes :
    /\ Truthy(SyscodeOf(f.config)) => (f.codec = 1 /\ f.nav = 1)
    /\ f.nav = 1 => f.replace

\* The flushes that handed a query to the navigation action, in order.
Navigations == {i \in 1..Len(flushLog) : flushLog[i].nav = 1}

\* C20: when a flush for syscode A is followed by a flush for another syscode
\* B, the later flush builds its query from a URL that holds A's entry as A's
\* flush wrote it, and once both navigations have committed the URL's query
\* holds that entry of A and an entry of B.
C20_NoLostUpdate ==
  \A i, j \in Navigations :
    (i < j /\ SyscodeOf(flushLog[i].config) # SyscodeOf(flushLog[j].config)) =>
      LET A == SyscodeOf(flushLog[i].config)
          B == SyscodeOf(flushLog[j].config)
          written == Get(flushLog[i].query, A.s)
      IN /\ Get(flushLog[j].url, A.s) = written
         /\ (inflight = <<>> /\ j = Len(flushLog)) =>
              (Get(routeQuery, A.s) = written /\ Has(routeQuery, B.s))

\* C17: whenever an intent is pending and no further call arrives, the timer
\* expires, the intent is flushed, and the machine is idle again with every
\* burst of calls flushed.
C17_PendingIsFlushed ==
  \A n \in 0..MaxCalls :
    (~Idle /\ callSeq = n) ~>
      ((Idle /\ Len(flushLog) = bursts) \/ callSeq > n)

\* An intent was pending, no call followed, and it has been flushed.
C17_Witness ==
  /\ Idle
  /\ callSeq = 1
  /\ bursts = 1
  /\ Len(flushLog) = 1
  /\ flushLog[1].used.id = 1

\* ------------------------------------------------------------ StructuralOps on a heap

\* A reference to the container at address a. A container holds its own
\* properties as entries in property order, a sequence its elements under the
\* keys "0", "1", ...; the values are primitives or references.
Ref(a) == [t |-> "ref", n |-> a, s |-> "", c |-> <<>>]

IsRef(v) == v.t = "ref"

Node(tag, entries) == [t |-> tag, n |-> 0, s |-> "", c |-> entries]

\* A binary-file handle (instanceof File).
FileNode(name) == [t |-> "file", n |-> 0, s |-> name, c |-> <<>>]

IndexKeys == <<"0", "1", "2", "3">>

IndexKey(i) == IndexKeys[i + 1]

IsIndexKey(k) == \E i \in 1..Len(IndexKeys) : IndexKeys[i] = k

\* The caller's data: the value v built on heap h, every mapping, sequence
\* and file handle a container of its own.
RECURSIVE Build(_, _), BuildEntries(_, _, _)
BuildEntries(h, entries, done) ==
  IF entries = <<>>
  THEN [h |-> h, c |-> done]
  ELSE LET b == Build(h, Head(entries).v)
       IN BuildEntries(b.h, Tail(entries), Append(done, KV(Head(entries).k, b.v)))

Build(h, v) ==
  CASE v.t = "obj" ->
         LET b == BuildEntries(h, v.c, <<>>)
         IN [h |-> Append(b.h, Node("obj", b.c)), v |-> Ref(Len(b.h) + 1)]
    [] v.t = "arr" ->
         LET b == BuildEntries(h, [i \in 1..Len(v.c) |-> KV(IndexKey(i - 1), v.c[i])], <<>>)
         IN [h |-> Append(b.h, Node("arr", b.c)), v |-> Ref(Len(b.h) + 1)]
    [] v.t = "file" -> [h |-> Append(h, v), v |-> Ref(Len(h) + 1)]
    [] OTHER -> [h |-> h, v |-> v]

\* The arguments of a call, built one after the other.
RECURSIVE BuildArgs(_, _, _)
BuildArgs(h, args, done) ==
  IF args = <<>>
  THEN [h |-> h, argv |-> done]
  ELSE LET b == Build(h, Head(args))
       IN BuildArgs(b.h, Tail(args), Append(done, b.v))

\* What value v is on heap h, with every reference followed (deep equality is
\* equality of trees).
RECURSIVE Tree(_, _)
Tree(h, v) ==
  IF IsRef(v)
  THEN Node(h[v.n].t, [i \in 1..Len(h[v.n].c) |->
                         KV(h[v.n].c[i].k, Tree(h, h[v.n].c[i].v))])
  ELSE v

\* The containers reachable from value v.
RECURSIVE Reach(_, _)
Reach(h, v) ==
  IF IsRef(v)
  THEN {v.n} \cup UNION {Reach(h, h[v.n].c[i].v) : i \in 1..Len(h[v.n].c)}
  ELSE {}

\* Mutant of CloneEntries: the clone holds the original's values (a shallow copy).
CloneEntries_Shallow(h, entries, done) == [h |-> h, c |-> entries]

\* CLONE with object identity: a new container for every mapping and every
\* sequence (item.map(CLONE) copies the elements only), the same handle for a
\* file, the value itself for a primitive.
RECURSIVE HeapCLONE(_, _), CloneEntries(_, _, _)
CloneEntries(h, entries, done) ==
  IF entries = <<>>
  THEN [h |-> h, c |-> done]
  ELSE LET r == HeapCLONE(h, Head(entries).v)
       IN CloneEntries(r.h, Tail(entries), Append(done, KV(Head(entries).k, r.v)))

HeapCLONE(h, item) ==
  IF ~IsRef(item)
  THEN [h |-> h, v |-> item]
  ELSE CASE h[item.n].t = "arr" ->
              LET r == CloneEntries(h, SelectSeq(h[item.n].c, LAMBDA e : IsIndexKey(e.k)), <<>>)
              IN [h |-> Append(r.h, Node("arr", r.c)), v |-> Ref(Len(r.h) + 1)]
         [] h[item.n].t = "file" -> [h |-> h, v |-> item]
         [] OTHER ->
              LET r == CloneEntries(h, h[item.n].c, <<>>)
              IN [h |-> Append(r.h, Node("obj", r.c)), v |-> Ref(Len(r.h) + 1)]

\* The place of an index key among the index keys.
IndexPos(k) == CHOOSE i \in 1..Len(IndexKeys) : IndexKeys[i] = k

\* node[key] = val: an own property keeps its place, a new index key goes
\* among the index keys in ascending order, any other new key goes last.
SetProp(node, key, val) ==
  IF \E i \in 1..Len(node.c) : node.c[i].k = key
  THEN [node EXCEPT !.c = [i \in 1..Len(node.c) |->
                             IF node.c[i].k = key THEN KV(key, val) ELSE node.c[i]]]
  ELSE IF IsIndexKey(key)
  THEN LET Lower(e) == IsIndexKey(e.k) /\ IndexPos(e.k) < IndexPos(key)
       IN [node EXCEPT !.c = SelectSeq(node.c, Lower) \o <<KV(key, val)>>
                               \o SelectSeq(node.c, LAMBDA e : ~Lower(e))]
  ELSE [node EXCEPT !.c = Append(node.c, KV(key, val))]

\* The characters of a string (the strings the calls are given have at most
\* one character).
Chars(s) == IF s = "" THEN <<>> ELSE <<s>>

\* The own enumerable properties of a value: a container's entries, a
\* string's characters under their indexes, none for any other primitive.
OwnProps(h, v) ==
  CASE IsRef(v) -> h[v.n].c
    [] v.t = "str" -> [i \in 1..Len(Chars(v.s)) |-> KV(IndexKey(i - 1), Str(Chars(v.s)[i]))]
    [] OTHER -> <<>>

\* value[key].
GetProp(h, v, key) ==
  LET props == OwnProps(h, v)
  IN IF \E i \in 1..Len(props) : props[i].k = key
     THEN props[CHOOSE i \in 1..Len(props) : props[i].k = key].v
     ELSE Undef

\* Object.assign(to, from): from's own properties are set on to, one by one.
\* A primitive to is wrapped in a temporary object; setting a character of a
\* string wrapper throws a TypeError.
RECURSIVE AssignProps(_, _, _)
AssignProps(h, a, props) ==
  IF props = <<>>
  THEN h
  ELSE AssignProps([h EXCEPT ![a] = SetProp(h[a], Head(props).k, Head(props).v)],
                   a, Tail(props))

ObjectAssign(h, to, from) ==
  IF IsRef(to)
  THEN [h |-> AssignProps(h, to.n, OwnProps(h, from)), threw |-> FALSE]
  ELSE [h |-> h,
        threw |-> /\ to.t = "str"
                  /\ \E i \in 1..Len(OwnProps(h, from)) :
                       /\ IsIndexKey(OwnProps(h, from)[i].k)
                       /\ IndexPos(OwnProps(h, from)[i].k) <= Len(Chars(to.s))]

\* source[key] instanceof Object: a mapping, a sequence or a file handle.
MergedInto(h, sv) == IsRef(sv)

\* MERGE(target, source) with object identity. For every key of source whose
\* value is an object, and a truthy target, that value is assigned the merge
\* of target[key] and itself; then source is assigned onto target (an empty
\* object that is dropped, if target is falsy) and target is returned.
RECURSIVE HeapMERGE(_, _, _), MergeKeys(_, _, _, _)
MergeKeys(h, target, source, keys) ==
  IF keys = <<>>
  THEN [h |-> h, threw |-> FALSE]
  ELSE LET sv == GetProp(h, source, Head(keys))
       IN IF Truthy(target) /\ MergedInto(h, sv)
          THEN LET m == HeapMERGE(h, GetProp(h, target, Head(keys)), sv)
               IN IF m.threw
                  THEN [h |-> m.h, threw |-> TRUE]
                  ELSE MergeKeys(ObjectAssign(m.h, sv, m.v).h, target, source, Tail(keys))
          ELSE MergeKeys(h, target, source, Tail(keys))

HeapMERGE(h, target, source) ==
  LET keys == [i \in 1..Len(OwnProps(h, source)) |-> OwnProps(h, source)[i].k]
      m == MergeKeys(h, target, source, keys)
  IN IF m.threw
     THEN [h |-> m.h, v |-> Undef, threw |-> TRUE]
     ELSE IF Truthy(target)
     THEN LET a == ObjectAssign(m.h, target, source)
          IN [h |-> a.h, v |-> IF a.threw THEN Undef ELSE target, threw |-> a.threw]
     ELSE [h |-> m.h, v |-> target, threw |-> FALSE]

\* IS_DEFINED(value): neither undefined nor null.
IS_DEFINED(v) == v.t \notin {"undef", "null"}

\* The strings that TRIM leaves empty.
Blanks == {"", " ", "  "}

TRIM(s) == IF s \in Blanks THEN "" ELSE s

\* TRIM(value.toString()).length = 0: a blank string; a sequence with no
\* element, or with one element that is null, undefined or blank itself
\* (two elements are joined with a comma). Numbers, booleans, mappings and
\* file handles have a string form that is not blank.
RECURSIVE BlankForm(_, _)
BlankForm(h, v) ==
  CASE v.t = "str" -> TRIM(v.s) = ""
    [] IsRef(v) /\ h[v.n].t = "arr" ->
         \/ Len(h[v.n].c) = 0
         \/ /\ Len(h[v.n].c) = 1
            /\ \/ ~IS_DEFINED(h[v.n].c[1].v)
               \/ BlankForm(h, h[v.n].c[1].v)
    [] OTHER -> FALSE

\* path.split(delimiter), for the paths and delimiters of the calls.
Split(path, delimiter) ==
  CASE path = "a.b" /\ delimiter = "." -> <<"a", "b">>
    [] path = "a.b.c" /\ delimiter = "." -> <<"a", "b", "c">>
    [] path = "a#b" /\ delimiter = "#" -> <<"a", "b">>
    [] path = "a.c" /\ delimiter = "." -> <<"a", "c">>
    [] path = "x.y" /\ delimiter = "." -> <<"x", "y">>
    [] OTHER -> <<path>>

\* (accum, curr) => accum && accum[curr]
Step(h, accum, curr) == IF Truthy(accum) THEN GetProp(h, accum, curr) ELSE accum

\* path.split(delimiter).reduce(Step, item)
RECURSIVE Walk(_, _, _)
Walk(h, accum, segments) ==
  IF segments = <<>>
  THEN accum
  ELSE Walk(h, Step(h, accum, Head(segments)), Tail(segments))

\* GET_VALUE(item, name, path, delimiter = "."); an argument left out is
\* undefined.
GET_VALUE(h, item, name, path, delimiter) ==
  LET delim == IF delimiter.t = "undef" THEN "." ELSE delimiter.s
      walked == Walk(h, item, Split(path.s, delim))
      value ==
        IF ~Truthy(item) THEN Undef
        ELSE IF Truthy(path)
        THEN IF Truthy(walked) /\ Truthy(name) THEN GetProp(h, walked, name.s) ELSE walked
        ELSE IF Truthy(name) /\ IS_DEFINED(GetProp(h, item, name.s))
        THEN GetProp(h, item, name.s)
        ELSE Undef
  IN IF IS_DEFINED(value) /\ ~BlankForm(h, value) THEN value ELSE Undef

\* key.includes("."), for the keys of the calls.
Dotted(key) == Split(key, ".") # <<key>>

\* delete node[key]
DeleteProp(node, key) == [node EXCEPT !.c = SelectSeq(node.c, LAMBDA e : e.k # key)]

\* keys.reduce(..., params) of CONVERT_DOT_TO_OBJECT for one dotted key: a
\* defined accum[curr] is stepped into, a missing one is assigned a new
\* mapping, or value at the last segment; nothing happens below a falsy
\* accum, and assigning a property of a truthy primitive throws a TypeError
\* (the module is strict code).
RECURSIVE Expand(_, _, _, _)
Expand(h, accum, segments, value) ==
  IF segments = <<>> \/ ~Truthy(accum)
  THEN [h |-> h, threw |-> FALSE]
  ELSE IF IS_DEFINED(GetProp(h, accum, Head(segments)))
  THEN Expand(h, GetProp(h, accum, Head(segments)), Tail(segments), value)
  ELSE IF ~IsRef(accum)
  THEN [h |-> h, threw |-> TRUE]
  ELSE IF Len(segments) > 1
  THEN Expand(Append([h EXCEPT ![accum.n] = SetProp(h[accum.n], Head(segments), Ref(Len(h) + 1))],
                     Node("obj", <<>>)),
              Ref(Len(h) + 1), Tail(segments), value)
  ELSE [h |-> [h EXCEPT ![accum.n] = SetProp(h[accum.n], Head(segments), value)],
        threw |-> FALSE]

\* ITERATE(params, ...) of CONVERT_DOT_TO_OBJECT: the own keys of params in
\* turn; a dotted key that is still there is expanded and then deleted.
RECURSIVE ConvertKeys(_, _, _)
ConvertKeys(h, params, keys) ==
  IF keys = <<>>
  THEN [h |-> h, threw |-> FALSE]
  ELSE IF Dotted(Head(keys)) /\ \E i \in 1..Len(h[params.n].c) : h[params.n].c[i].k = Head(keys)
  THEN LET e == Expand(h, params, Split(Head(keys), "."), GetProp(h, params, Head(keys)))
       IN IF e.threw
          THEN e
          ELSE ConvertKeys([e.h EXCEPT ![params.n] = DeleteProp(e.h[params.n], Head(keys))],
                           params, Tail(keys))
  ELSE ConvertKeys(h, params, Tail(keys))

CONVERT_DOT_TO_OBJECT(h, params) ==
  IF IsRef(params) /\ h[params.n].t \in {"obj", "arr"}
  THEN ConvertKeys(h, params, [i \in 1..Len(h[params.n].c) |-> h[params.n].c[i].k])
  ELSE [h |-> h, threw |-> FALSE]

\* Mutant of ConfigParams: the params are used as they are, not cloned.
ConfigParams_NoClone(h, params) ==
  IF Truthy(params)
  THEN [h |-> h, v |-> params]
  ELSE [h |-> Append(h, Node("obj", <<>>)), v |-> Ref(Len(h) + 1)]

\* const configParams = CLONE(params) || {}
ConfigParams(h, params) ==
  IF Truthy(HeapCLONE(h, params).v)
  THEN HeapCLONE(h, params)
  ELSE [h |-> Append(h, Node("obj", <<>>)), v |-> Ref(Len(h) + 1)]

\* configParams.sort = config.sort; ... configParams.mode = config.mode
RECURSIVE ForwardFields(_, _, _, _)
ForwardFields(h, configParams, config, i) ==
  IF i > Len(ForwardedFields)
  THEN h
  ELSE ForwardFields([h EXCEPT ![configParams.n] =
                         SetProp(h[configParams.n], ForwardedFields[i],
                                 GetProp(h, config, ForwardedFields[i]))],
                     configParams, config, i + 1)

\* What _navigate(config, params) does to the objects it is given and makes:
\* under its guard it clones params and assigns the forwarded fields on the
\* clone. The codec and navigateTo that follow read config and the clone,
\* and write only to objects they decode or create themselves.
HeapNavigate(h, config, params) ==
  IF Truthy(GetProp(h, config, "syscode"))
  THEN ForwardFields(ConfigParams(h, params).h, ConfigParams(h, params).v, config, 1)
  ELSE h

\* ------------------------------------------------------------ calls of StructuralOps

\* What CLONE is given: primitives, empty and nested mappings and sequences,
\* a file handle, and file handles inside containers.
CloneInputs ==
  { Num(1), Str("x"), Null, Undef, EmptyObj, Arr(<<>>),
    Obj(<<KV("a", Num(1)),
          KV("b", Obj(<<KV("c", Arr(<<Num(1), Obj(<<KV("d", Str("x"))>>)>>))>>))>>),
    Arr(<<Obj(<<KV("a", Num(1))>>), Arr(<<Num(2), Null>>)>>),
    FileNode("f.png"),
    Obj(<<KV("f", FileNode("f.png")), KV("list", Arr(<<FileNode("g.png")>>))>>) }

\* What MERGE is given as target and as source: mappings whose key "a" holds
\* a scalar, a mapping or a sequence, with and without further keys.
MergeTargets ==
  { EmptyObj,
    Obj(<<KV("a", Num(1))>>),
    Obj(<<KV("a", Str("s")), KV("b", Num(2))>>),
    Obj(<<KV("a", Obj(<<KV("x", Num(1)), KV("y", Num(2))>>))>>),
    Obj(<<KV("a", Obj(<<KV("x", Obj(<<KV("p", Num(1))>>))>>)), KV("b", Num(2))>>),
    Obj(<<KV("a", Arr(<<Num(1), Num(2), Num(3)>>))>>) }

MergeSources ==
  { EmptyObj,
    Obj(<<KV("b", Num(7))>>),
    Obj(<<KV("a", Num(5))>>),
    Obj(<<KV("a", Obj(<<KV("y", Num(9)), KV("z", Num(3))>>))>>),
    Obj(<<KV("a", Obj(<<KV("x", Obj(<<KV("q", Num(2))>>))>>)), KV("c", Obj(<<KV("r", Num(4))>>))>>),
    Obj(<<KV("a", Arr(<<Num(9)>>))>>) }

\* What GET_VALUE is given: items whose key "a" holds a mapping (with a
\* string, a blank string, a mapping or an empty sequence under "b", or
\* without "b"), a falsy value or a string; a name or none; a path of one to
\* three segments or none; the default delimiter or "#".
GetValueItems ==
  { Undef,
    Obj(<<KV("a", Obj(<<KV("b", Str("x"))>>)), KV("b", Num(7))>>),
    Obj(<<KV("a", Obj(<<KV("b", Str(""))>>)), KV("b", Str(" "))>>),
    Obj(<<KV("a", EmptyObj)>>),
    Obj(<<KV("a", Obj(<<KV("b", Obj(<<KV("c", Num(5)), KV("b", Bool(FALSE))>>))>>))>>),
    Obj(<<KV("a", Obj(<<KV("b", Arr(<<>>))>>)), KV("b", Arr(<<Str("")>>))>>),
    Obj(<<KV("a", Num(0))>>),
    Obj(<<KV("a", Bool(FALSE)), KV("b", Null)>>),
    Obj(<<KV("a", Str(""))>>),
    Obj(<<KV("a", Str("s")), KV("b", Num(0))>>) }

GetValueNames == {Undef, Str("b")}

GetValuePaths == {Undef, Str("a"), Str("a.b"), Str("a.b.c"), Str("a#b")}

GetValueDelimiters == {Undef, Str("#")}

\* What CONVERT_DOT_TO_OBJECT is given: dotted keys that share a prefix, that
\* go three levels deep, that meet a mapping already there (with other
\* sub-keys, or with the innermost key itself), that hold a mapping or null,
\* that meet a number where a mapping is needed; and no dotted key at all.
ConvertInputs ==
  { EmptyObj,
    Obj(<<KV("q", Num(1))>>),
    Obj(<<KV("a.b", Num(1)), KV("a.c", Num(2))>>),
    Obj(<<KV("a.b.c", Str("v")), KV("q", Num(5))>>),
    Obj(<<KV("a", Obj(<<KV("k", Num(1))>>)), KV("a.b", Num(2))>>),
    Obj(<<KV("a", Obj(<<KV("b", Num(5))>>)), KV("a.b", Num(1))>>),
    Obj(<<KV("a", Obj(<<KV("b", Obj(<<KV("k", Num(1))>>))>>)), KV("a.b.c", Num(3)),
          KV("x.y", Null)>>),
    Obj(<<KV("a.b", Obj(<<KV("k", Num(1))>>)), KV("a.b.c", Num(2))>>),
    Obj(<<KV("a", Num(5)), KV("a.b", Num(1))>>),
    Obj(<<KV("a", Num(0)), KV("a.b", Num(1))>>) }

OpsInputs ==
  {[name |-> "CLONE", args |-> <<x>>] : x \in CloneInputs}
    \cup {[name |-> "MERGE", args |-> <<target, source>>] :
            target \in MergeTargets, source \in MergeSources}
    \cup {[name |-> "GET_VALUE", args |-> <<item, name, path, delimiter>>] :
            item \in GetValueItems, name \in GetValueNames,
            path \in GetValuePaths, delimiter \in GetValueDelimiters}
    \cup {[name |-> "CONVERT_DOT_TO_OBJECT", args |-> <<params>>] :
            params \in ConvertInputs}
    \cup {[name |-> "_navigate", args |-> <<config, params>>] :
            config \in Config1Init \cup Config2Init, params \in ParamsInputs}

\* useNavigable at rest.
NavQuiet ==
  /\ configs = [c \in CfgIds |-> EmptyObj]
  /\ _queue = NoIntent
  /\ watchPending = FALSE
  /\ timer = NoTimer
  /\ debounced = NoIntent
  /\ routeQuery = EmptyObj
  /\ inflight = <<>>
  /\ callSeq = 0
  /\ elapsed = DebounceMs
  /\ burst = 0
  /\ bursts = 0
  /\ ghost = NoIntent
  /\ last = NoCall
  /\ flushLog = <<>>

\* A caller holds the arguments of one call.
InitOps ==
  /\ NavQuiet
  /\ \E in \in OpsInputs :
       /\ heap = BuildArgs(<<>>, in.args, <<>>).h
       /\ opCall = [name |-> in.name, argv |-> BuildArgs(<<>>, in.args, <<>>).argv,
                    step |-> 0]
  /\ heap0 = heap
  /\ opRet = NoRet

\* The call at hand returns v (or throws) and leaves heap h.
Return(h, v, threw) ==
  /\ heap0' = heap
  /\ heap' = h
  /\ opRet' = [v |-> v, threw |-> threw]
  /\ opCall' = [opCall EXCEPT !.step = opCall.step + 1]
  /\ UNCHANGED navVars

CallCLONE ==
  /\ opCall.name = "CLONE"
  /\ opCall.step = 0
  /\ \E r \in {HeapCLONE(heap, opCall.argv[1])} : Return(r.h, r.v, FALSE)

CallMERGE ==
  /\ opCall.name = "MERGE"
  /\ opCall.step = 0
  /\ \E r \in {HeapMERGE(heap, opCall.argv[1], opCall.argv[2])} :
       Return(r.h, r.v, r.threw)

CallGET_VALUE ==
  /\ opCall.name = "GET_VALUE"
  /\ opCall.step = 0
  /\ Return(heap, GET_VALUE(heap, opCall.argv[1], opCall.argv[2], opCall.argv[3],
                            opCall.argv[4]), FALSE)

\* CONVERT_DOT_TO_OBJECT(params), and once more on the same params.
CallCONVERT_DOT_TO_OBJECT ==
  /\ opCall.name = "CONVERT_DOT_TO_OBJECT"
  /\ opCall.step \in {0, 1}
  /\ \E r \in {CONVERT_DOT_TO_OBJECT(heap, opCall.argv[1])} : Return(r.h, Undef, r.threw)

\* A flush: _navigate(config, params) on the caller's config and params.
CallNavigate ==
  /\ opCall.name = "_navigate"
  /\ opCall.step = 0
  /\ Return(HeapNavigate(heap, opCall.argv[1], opCall.argv[2]), Undef, FALSE)

\* The caller goes on to write a property of a mapping or a sequence of the
\* value a call returned: an own property, or a new one.
MutateResult ==
  /\ opCall.name \in {"CLONE", "MERGE"}
  /\ opCall.step = 1
  /\ \E a \in Reach(heap, opRet.v) :
       /\ heap[a].t # "file"
       /\ \E key \in {heap[a].c[i].k : i \in 1..Len(heap[a].c)}
                       \cup {IF heap[a].t = "arr" THEN IndexKey(0) ELSE "written"} :
            heap' = [heap EXCEPT ![a] = SetProp(heap[a], key, Str("!"))]
  /\ opCall' = [opCall EXCEPT !.step = 2]
  /\ UNCHANGED <<heap0, opRet, navVars>>

NextOps ==
  \/ CallCLONE
  \/ CallMERGE
  \/ CallGET_VALUE
  \/ CallCONVERT_DOT_TO_OBJECT
  \/ CallNavigate
  \/ MutateResult

SpecOps == InitOps /\ [][NextOps]_vars

\* C13: CLONE(x) deep-equals x, shares no mapping and no sequence with x at
\* any depth (so it is not x when x is a container), a write to any field of
\* the clone leaves x as it was, and a file handle is returned by identity.
C13_CloneIndependence ==
  (opCall.name = "CLONE" /\ opCall.step >= 1) =>
    LET x == opCall.argv[1]
        y == opRet.v
    IN /\ opCall.step = 1 => Tree(heap, y) = Tree(heap0, x)
       /\ \A a \in Reach(heap, x) \cap Reach(heap, y) : heap[a].t = "file"
       /\ (IsRef(x) /\ heap0[x.n].t # "file") => y # x
       /\ (IsRef(x) /\ heap0[x.n].t = "file") => y = x
       /\ ~IsRef(x) => y = x
       /\ Tree(heap, x) = Tree(heap0, x)

\* A mapping with mappings and sequences inside was cloned, and a container
\* nested in the clone was written to.
C13_Witness ==
  /\ opCall.name = "CLONE"
  /\ opCall.step = 2
  /\ Cardinality(Reach(heap0, opCall.argv[1])) >= 3
  /\ Tree(heap, opRet.v) # Tree(heap0, opCall.argv[1])
  /\ \E a \in Reach(heap, opRet.v) \ {opRet.v.n} :
       \E i \in 1..Len(heap[a].c) : heap[a].c[i].v = Str("!")

\* Trees: the keys of a container, the value under a key, and equality of
\* two trees whatever the order of their keys.
TreeKeys(u) == {u.c[i].k : i \in 1..Len(u.c)}

TreeGet(u, key) ==
  IF key \in TreeKeys(u)
  THEN u.c[CHOOSE i \in 1..Len(u.c) : u.c[i].k = key].v
  ELSE Undef

IsContainerTree(u) == u.t \in {"obj", "arr"}

RECURSIVE DeepEq(_, _)
DeepEq(u, v) ==
  IF IsContainerTree(u) /\ IsContainerTree(v)
  THEN /\ u.t = v.t
       /\ TreeKeys(u) = TreeKeys(v)
       /\ \A key \in TreeKeys(u) : DeepEq(TreeGet(u, key), TreeGet(v, key))
  ELSE u = v

\* The merge the claims describe, on trees: a key whose value is a mapping on
\* both sides holds the merge of the two, any other key of s holds s's value,
\* any other key of t holds t's.
RECURSIVE DeepMerge(_, _)
DeepMerge(tt, ss) ==
  LET Merged(key) ==
        IF key \notin TreeKeys(ss) THEN TreeGet(tt, key)
        ELSE IF TreeGet(tt, key).t = "obj" /\ TreeGet(ss, key).t = "obj"
        THEN DeepMerge(TreeGet(tt, key), TreeGet(ss, key))
        ELSE TreeGet(ss, key)
      added == SelectSeq(ss.c, LAMBDA e : e.k \notin TreeKeys(tt))
  IN Node("obj", [i \in 1..Len(tt.c) |-> KV(tt.c[i].k, Merged(tt.c[i].k))]
                   \o [i \in 1..Len(added) |-> KV(added[i].k, Merged(added[i].k))])

MergeDone == opCall.name = "MERGE" /\ opCall.step >= 1

\* C12: MERGE(t, s) on mappings returns t, which then holds, under every key
\* that is a mapping on both sides, the merge of the two with s winning on
\* scalar conflicts, and otherwise t's keys with s's keys added.
C12_MergeResult ==
  (MergeDone /\ opCall.step = 1) =>
    /\ ~opRet.threw
    /\ opRet.v = opCall.argv[1]
    /\ DeepEq(Tree(heap, opCall.argv[1]),
              DeepMerge(Tree(heap0, opCall.argv[1]), Tree(heap0, opCall.argv[2])))

\* C18: after MERGE(target, source), for every key of source whose value is
\* a scalar or a sequence, target[key] is the value source[key] had before
\* the call, whatever target held there.
C18_MergeOverwrite ==
  (MergeDone /\ opCall.step = 1) =>
    /\ ~opRet.threw
    /\ \A key \in TreeKeys(Tree(heap0, opCall.argv[2])) :
         LET before == TreeGet(Tree(heap0, opCall.argv[2]), key)
         IN before.t # "obj" =>
              DeepEq(TreeGet(Tree(heap, opCall.argv[1]), key), before)

\* C19: MERGE(target, source) changes target only: source and every mapping
\* in it are as before the call, also after a later write to the merged
\* target, and no mapping of target is a mapping of source.
C19_MergeLeavesSource ==
  MergeDone =>
    /\ Tree(heap, opCall.argv[2]) = Tree(heap0, opCall.argv[2])
    /\ \A a \in Reach(heap, opCall.argv[1]) \cap Reach(heap, opCall.argv[2]) :
         heap[a].t # "obj"

\* Where the operands hold numbers and mappings only (no sequence, no
\* string), the merged target is as C12 and C18 state it.
MergeOfMappings ==
  ( /\ MergeDone
    /\ opCall.step = 1
    /\ \A a \in 1..Len(heap0) :
         /\ heap0[a].t = "obj"
         /\ \A i \in 1..Len(heap0[a].c) : heap0[a].c[i].v.t \in {"num", "ref"} ) =>
    /\ ~opRet.threw
    /\ opRet.v = opCall.argv[1]
    /\ DeepEq(Tree(heap, opCall.argv[1]),
              DeepMerge(Tree(heap0, opCall.argv[1]), Tree(heap0, opCall.argv[2])))

\* GET_VALUE as C14 states it: undefined as soon as the item or a segment on
\* the way is missing or falsy, the walked value indexed by name if a name is
\* given, and undefined if that value has a blank string form.
RECURSIVE ClaimedWalk(_, _, _)
ClaimedWalk(h, cur, segments) ==
  IF segments = <<>> THEN [ok |-> TRUE, v |-> cur]
  ELSE IF ~Truthy(cur) THEN [ok |-> FALSE, v |-> Undef]
  ELSE ClaimedWalk(h, GetProp(h, cur, Head(segments)), Tail(segments))

ClaimedValue(h, item, name, path, delimiter) ==
  LET delim == IF delimiter.t = "undef" THEN "." ELSE delimiter.s
      w == ClaimedWalk(h, item, IF Truthy(path) THEN Split(path.s, delim) ELSE <<>>)
      final == IF ~w.ok THEN Undef
               ELSE IF ~Truthy(name) THEN w.v
               ELSE IF Truthy(w.v) THEN GetProp(h, w.v, name.s)
               ELSE Undef
  IN IF IS_DEFINED(final) /\ ~BlankForm(h, final) THEN final ELSE Undef

\* C14: GET_VALUE(item, name, path, delimiter) returns undefined if a segment
\* of path is missing or falsy (also a 0 or a false under which name is
\* looked up) or if the value found has a blank string form, and otherwise
\* the value found by walking path and then indexing by name.
C14_GetValue ==
  ( /\ opCall.name = "GET_VALUE"
    /\ opCall.step = 1
    /\ Truthy(opCall.argv[2]) \/ Truthy(opCall.argv[3]) ) =>
    opRet.v = ClaimedValue(heap0, opCall.argv[1], opCall.argv[2], opCall.argv[3],
                           opCall.argv[4])

\* Where the item holds neither 0 nor false, GET_VALUE returns what C14 states.
GetValueWithoutZero ==
  (\A a \in 1..Len(heap0) : \A i \in 1..Len(heap0[a].c) :
      heap0[a].c[i].v \notin {Num(0), Bool(FALSE)}) => C14_GetValue

\* The value found from v along the segments of a path.
RECURSIVE HeapWalk(_, _, _)
HeapWalk(h, v, segments) ==
  IF segments = <<>> THEN v
  ELSE HeapWalk(h, GetProp(h, v, Head(segments)), Tail(segments))

DottedKeys(h, params) ==
  {h[params.n].c[i].k : i \in {j \in 1..Len(h[params.n].c) : Dotted(h[params.n].c[j].k)}}

\* No intermediate segment of a dotted key holds a value that is no mapping.
NoScalarOnPath(h, params) ==
  \A key \in DottedKeys(h, params) :
    \A j \in 1..(Len(Split(key, ".")) - 1) :
      LET w == HeapWalk(h, params, SubSeq(Split(key, "."), 1, j))
      IN w = Undef \/ (IsRef(w) /\ h[w.n].t = "obj")

\* C15: where no intermediate segment holds a non-container value, after
\* CONVERT_DOT_TO_OBJECT(params) every dotted key is deleted and its value is
\* found at the nested path of its segments (also when that path was there
\* before), the mappings already on that path are the same objects with
\* their other sub-keys, no top-level key is dotted, and a second call
\* leaves params as they are.
C15_DotExpansion ==
  ( /\ opCall.name = "CONVERT_DOT_TO_OBJECT"
    /\ opCall.step >= 1
    /\ NoScalarOnPath(heap0, opCall.argv[1]) ) =>
    LET params == opCall.argv[1]
    IN /\ ~opRet.threw
       /\ DottedKeys(heap, params) = {}
       /\ opCall.step = 2 => Tree(heap, params) = Tree(heap0, params)
       /\ \A key \in DottedKeys(heap0, params) :
            LET segments == Split(key, ".")
            IN /\ HeapWalk(heap, params, segments) = GetProp(heap0, params, key)
               /\ \A j \in 1..(Len(segments) - 1) :
                    LET w == HeapWalk(heap0, params, SubSeq(segments, 1, j))
                    IN IsRef(w) =>
                         /\ HeapWalk(heap, params, SubSeq(segments, 1, j)) = w
                         /\ \A i \in 1..Len(heap0[w.n].c) :
                              heap0[w.n].c[i].k # segments[j + 1] =>
                                GetProp(heap, w, heap0[w.n].c[i].k) = heap0[w.n].c[i].v

\* Where nothing is defined yet at the full path of any dotted key, the
\* expansion is as C15 states it.
DotExpansionOnFreePath ==
  ( /\ opCall.name = "CONVERT_DOT_TO_OBJECT"
    /\ \A key \in DottedKeys(heap0, opCall.argv[1]) :
         ~IS_DEFINED(HeapWalk(heap0, opCall.argv[1], Split(key, "."))) ) =>
    C15_DotExpansion

\* C16: a flush leaves the caller's data as it was: the params object given
\* to navigate and the config have the same keys and values after the flush
\* as before (no container the caller holds is written to; the forwarded
\* config fields are assigned on a clone).
C16_FlushLeavesCallerData ==
  (opCall.name = "_navigate" /\ opCall.step = 1) =>
    /\ Tree(heap, opCall.argv[2]) = Tree(heap0, opCall.argv[2])
    /\ Tree(heap, opCall.argv[1]) = Tree(heap0, opCall.argv[1])
    /\ \A a \in 1..Len(heap0) : heap[a] = heap0[a]

\* A flush for a config with a syscode and a sort, given params with a sort
\* of their own: the clone holds the config's sort, the params still theirs.
C16_Witness ==
  /\ opCall.name = "_navigate"
  /\ opCall.step = 1
  /\ Truthy(GetProp(heap, opCall.argv[1], "syscode"))
  /\ IsRef(GetProp(heap, opCall.argv[1], "sort"))
  /\ IsRef(GetProp(heap, opCall.argv[2], "sort"))
  /\ GetProp(heap, opCall.argv[2], "sort") # GetProp(heap, opCall.argv[1], "sort")
  /\ \E a \in (Len(heap0) + 1)..Len(heap) :
       /\ GetProp(heap, Ref(a), "sort") = GetProp(heap, opCall.argv[1], "sort")
       /\ GetProp(heap, Ref(a), "filter") = GetProp(heap, opCall.argv[2], "filter")

====
